---- MODULE Spec2Model ----
(***************************************************************************)
(* Form-intake gateway: the submission ingestion pipeline of app.py        *)
(* (submit_form), the attachment store of utils.py, the notification       *)
(* dispatcher of email_service.py and the admin operations on credentials  *)
(* and submissions, over a transactional store and a file system.          *)
(*                                                                         *)
(* One worker handles one request to completion and then takes the next.   *)
(* A request runs through                                                  *)
(*   idle -> files -> notify -> commit -> teardown -> done                 *)
(* and every early return of submit_form jumps to teardown, where the      *)
(* request-scoped session is removed and the response is delivered.        *)
(***************************************************************************)
EXTENDS Integers, Sequences, FiniteSets, TLC

(* ------------------------------- bounds -------------------------------- *)
NumWorkers == 2
MaxRequests == 1
MaxKeys == 2
MaxFiles == 2
MaxClock == 2
MonthLen == 2
MaxPrefix == 1
MaxSuffix == 2

Workers == 1..NumWorkers
KeyIds == 1..MaxKeys

(* --------------------------- program constants ------------------------- *)
MAX_FILE_SIZE == 10485760
MAX_VALUE_LEN == 10000

(* The timeout each send is given, in seconds: smtplib.SMTP(host, port,    *)
(* timeout=10); resend.Emails.send(email_data) is called without one.      *)
SMTP_TIMEOUT == 10
MAX_CONTENT_LENGTH == "unset"
ALLOWED_EXTENSIONS == {"pdf", "doc", "docx", "txt", "png", "jpg", "jpeg", "gif", "zip"}

NULL == "NULL"
NoKey == [id |-> 0]
NoSubmission == [id |-> 0]

(* ------------------------------ input menus ---------------------------- *)
(* API key strings a client can present / generate_key can draw.           *)
Tokens == {"k1", "k2"}

(* A string is a sequence of characters; "NUL" is the byte \x00.           *)
EmptyForm == [k \in {} |-> << >>]
FormA == [name |-> <<" ", "A", "NUL", "l", " ">>, note |-> <<" ", "NUL">>]
Forms == {EmptyForm, FormA}

(* A filename is a sequence of chunks: "." and "/" are the characters      *)
(* themselves, every other chunk is a run of ordinary characters.          *)
NameOk == <<"a", ".", "pdf">>
NameUpper == <<"b", ".", "PDF">>
NameBad == <<"c", ".", "exe">>
NameNone == << >>

(* The multipart file parts a request can carry: form field name, client   *)
(* filename and content (its byte count).                                  *)
FileParts ==
    { [field |-> "f1", filename |-> NameOk,    content |-> 2],
      [field |-> "f2", filename |-> NameUpper, content |-> MAX_FILE_SIZE + 1],
      [field |-> "f2", filename |-> NameBad,   content |-> 1] }

RECURSIVE SeqsUpTo(_, _)
SeqsUpTo(S, n) ==
    IF n = 0 THEN {<< >>}
    ELSE LET shorter == SeqsUpTo(S, n - 1)
         IN  shorter \cup {Append(s, x) : s \in {t \in shorter : Len(t) = n - 1}, x \in S}

FileLists == SeqsUpTo(FileParts, MaxFiles)

SubmitInputs == [api_key : Tokens, form : Forms, files : FileLists]

VARIABLES
    api_keys,          \* table api_keys: id -> row
    form_submissions,  \* table form_submissions: set of committed rows
    file_uploads,      \* table file_uploads: set of committed rows
    seqs,              \* autoincrement sequences of the three tables
    disk,              \* files under UPLOAD_FOLDER
    dirs,              \* directories under UPLOAD_FOLDER
    clock,             \* datetime.utcnow(), in seconds
    started,           \* number of requests received so far
    accepted,          \* per credential id, number of requests answered 201
    resend_api_key,    \* EmailService.resend_api_key
    environ,           \* os.environ: the deployment's SMTP_* settings
    pc,                \* position of each worker in its request
    request,           \* the inputs of the worker's request
    response,          \* the response of the worker's request
    session,           \* the worker's db.session and the handler's locals
    hist               \* observations of the worker's request (for the properties)

dbvars == <<api_keys, form_submissions, file_uploads, seqs>>
fsvars == <<disk, dirs>>
reqvars == <<pc, request, response, session, hist>>
vars == <<api_keys, form_submissions, file_uploads, seqs, disk, dirs, clock,
          started, accepted, resend_api_key, environ, pc, request, response, session,
          hist>>

Tables == [api_keys |-> api_keys, form_submissions |-> form_submissions,
           file_uploads |-> file_uploads]

(* ----------------------------- utils.py -------------------------------- *)
Min(a, b) == IF a < b THEN a ELSE b

IsSpace(c) == c = " "

RemoveNul(s) == SelectSeq(s, LAMBDA c : c # "NUL")

RECURSIVE LStrip(_)
LStrip(s) == IF s # << >> /\ IsSpace(Head(s)) THEN LStrip(Tail(s)) ELSE s

RECURSIVE RStrip(_)
RStrip(s) ==
    IF s # << >> /\ IsSpace(s[Len(s)]) THEN RStrip(SubSeq(s, 1, Len(s) - 1)) ELSE s

Strip(s) == RStrip(LStrip(s))

Truncate(s, n) == SubSeq(s, 1, Min(Len(s), n))

SanitizeValueTruncatesFirst(value) == Strip(Truncate(RemoveNul(value), MAX_VALUE_LEN))

(* value.replace('\x00', '').strip(), then value[:10000] *)
SanitizeValue(value) == Truncate(Strip(RemoveNul(value)), MAX_VALUE_LEN)

sanitize_form_dataDropsBlank(data) ==
    [k \in {j \in DOMAIN data : SanitizeValue(data[j]) # << >>} |-> SanitizeValue(data[k])]

sanitize_form_data(data) == [k \in DOMAIN data |-> SanitizeValue(data[k])]

Lower(c) ==
    CASE c = "PDF" -> "pdf"
      [] c = "EXE" -> "exe"
      [] c = "A" -> "a"
      [] OTHER -> c

HasDot(filename) == \E i \in DOMAIN filename : filename[i] = "."

LastDot(filename) ==
    CHOOSE i \in DOMAIN filename :
        filename[i] = "." /\ \A j \in DOMAIN filename : filename[j] = "." => j <= i

(* filename.rsplit('.', 1)[1].lower() *)
Extension(filename) ==
    LET ext == SubSeq(filename, LastDot(filename) + 1, Len(filename))
    IN  [i \in DOMAIN ext |-> Lower(ext[i])]

allowed_file(filename, allowed_extensions) ==
    /\ HasDot(filename)
    /\ LET ext == Extension(filename)
       IN  Len(ext) = 1 /\ ext[1] \in allowed_extensions

(* werkzeug secure_filename on chunks: path separators become blanks, the  *)
(* name is split on blanks and joined with "_", characters outside         *)
(* [A-Za-z0-9_.-] are removed, and leading and trailing dots and           *)
(* underscores are stripped.                                               *)
RECURSIVE StripEdge(_)
StripEdge(s) ==
    IF s # << >> /\ Head(s) \in {".", "_", " "} THEN StripEdge(Tail(s))
    ELSE IF s # << >> /\ s[Len(s)] \in {".", "_", " "}
         THEN StripEdge(SubSeq(s, 1, Len(s) - 1))
         ELSE s

RECURSIVE JoinBlanks(_)
JoinBlanks(s) ==
    IF s = << >> THEN << >>
    ELSE IF IsSpace(Head(s))
         THEN IF Len(s) > 1 /\ IsSpace(s[2]) THEN JoinBlanks(Tail(s))
              ELSE <<"_">> \o JoinBlanks(Tail(s))
         ELSE <<Head(s)>> \o JoinBlanks(Tail(s))

AsciiStripped == {"\\", "NUL"}

RECURSIVE AsciiStrip(_)
AsciiStrip(s) ==
    IF s = << >> THEN << >>
    ELSE IF Head(s) \in AsciiStripped THEN AsciiStrip(Tail(s))
         ELSE <<Head(s)>> \o AsciiStrip(Tail(s))

secure_filenameAsIs(filename) == filename

secure_filename(filename) ==
    LET blanks == [i \in DOMAIN filename |->
                      IF filename[i] = "/" THEN " " ELSE filename[i]]
    IN  StripEdge(AsciiStrip(JoinBlanks(LStrip(RStrip(blanks)))))

(* now.strftime('%Y-%m') *)
YearMonth(now) == now \div MonthLen

(* secrets.token_hex(8) *)
RandomHex == {"r1", "r2"}

TargetDir(api_key_id, now) == <<api_key_id, YearMonth(now)>>

StoredFilenameNoToken(filename, now, rnd) ==
    [timestamp |-> now, token |-> 0, name |-> secure_filename(filename)]

(* f"{timestamp}_{secrets.token_hex(8)}_{name}{ext}" *)
StoredFilename(filename, now, rnd) ==
    [timestamp |-> now, token |-> rnd, name |-> secure_filename(filename)]

FilePath(api_key_id, now, stored_filename) ==
    [dir |-> TargetDir(api_key_id, now), name |-> stored_filename]

(* Path.mkdir(parents=True, exist_ok=True) *)
MkDirs(ds, api_key_id, now) == ds \cup {<<api_key_id>>, TargetDir(api_key_id, now)}

(* file.save(path): creates or overwrites the file at path *)
WriteFile(d, path, content) ==
    [p \in DOMAIN d \cup {path} |-> IF p = path THEN content ELSE d[p]]

(* ------------------------------ models.py ------------------------------ *)
NewApiKey(id, key, name, recipient_email, now) ==
    [id |-> id, key |-> key, name |-> name, recipient_email |-> recipient_email,
     is_active |-> TRUE, usage_count |-> 0, last_used |-> NULL, created_at |-> now]

increment_usage(row, now) ==
    [row EXCEPT !.usage_count = row.usage_count + 1, !.last_used = now]

NewSubmission(id, api_key_id, data) ==
    [id |-> id, api_key_id |-> api_key_id, data |-> data,
     email_sent |-> FALSE, email_error |-> NULL]

NewFileUpload(submission_id, original_filename, stored_filename, file_path, file_size) ==
    [submission_id |-> submission_id, original_filename |-> original_filename,
     stored_filename |-> stored_filename, file_path |-> file_path,
     file_size |-> file_size]

(* FileUpload.to_dict(): a plain dict; it has items, no attributes, and    *)
(* file_path is not among its items.                                       *)
to_dict(file_upload) ==
    [kind |-> "dict",
     items |-> [submission_id |-> file_upload.submission_id,
                original_filename |-> file_upload.original_filename,
                stored_filename |-> file_upload.stored_filename,
                file_size |-> file_upload.file_size]]

(* ApiKey.query.filter_by(key=api_key, is_active=True).first() *)
QueryActiveKeyAnyState(keys, api_key) ==
    IF \E id \in DOMAIN keys : keys[id].key = api_key
    THEN keys[CHOOSE id \in DOMAIN keys : keys[id].key = api_key]
    ELSE NoKey

QueryActiveKeyInverted(keys, api_key) ==
    IF \E id \in DOMAIN keys : keys[id].key = api_key /\ ~keys[id].is_active
    THEN keys[CHOOSE id \in DOMAIN keys : keys[id].key = api_key /\ ~keys[id].is_active]
    ELSE NoKey

QueryActiveKey(keys, api_key) ==
    IF \E id \in DOMAIN keys : keys[id].key = api_key /\ keys[id].is_active
    THEN keys[CHOOSE id \in DOMAIN keys : keys[id].key = api_key /\ keys[id].is_active]
    ELSE NoKey

(* --------------------------- email_service.py -------------------------- *)
(* A descriptor handed to the dispatcher is a Python value: attribute      *)
(* access succeeds on a FileUpload object and raises AttributeError on a   *)
(* dict, whatever the dict's items are.                                    *)
HasAttr(obj, a) == obj.kind = "object" /\ a \in DOMAIN obj.items

GetAttr(obj, a, default) == IF HasAttr(obj, a) THEN obj.items[a] ELSE default

(* _format_file_size: one decimal of the size in the first unit in which   *)
(* it is below 1024; tenths holds the rounded number of tenths.            *)
format_file_size_units == <<"B", "KB", "MB", "GB">>

RECURSIVE FormatIn(_, _, _)
FormatIn(size_bytes, divisor, i) ==
    IF i > Len(format_file_size_units)
    THEN [tenths |-> (20 * size_bytes + divisor) \div (2 * divisor), unit |-> "TB"]
    ELSE IF size_bytes < 1024 * divisor
         THEN [tenths |-> (20 * size_bytes + divisor) \div (2 * divisor),
               unit |-> format_file_size_units[i]]
         ELSE FormatIn(size_bytes, 1024 * divisor, i + 1)

_format_file_size(size_bytes) == FormatIn(size_bytes, 1, 1)

(* The file list of both bodies: getattr(file_obj, 'original_filename',    *)
(* 'file') and getattr(file_obj, 'file_size', 0).                          *)
ListedFiles(files) ==
    [i \in DOMAIN files |->
        [filename |-> GetAttr(files[i], "original_filename", <<"file">>),
         size |-> _format_file_size(GetAttr(files[i], "file_size", 0))]]

(* The HTML document as its elements: one div.field per item of form_data  *)
(* holding a div.field-label and a div.field-value, and one div.file-item  *)
(* per descriptor.                                                         *)
_create_html_body(api_key_name, form_data, files) ==
    [from |-> api_key_name,
     fields |-> {[label |-> key, value |-> form_data[key]] : key \in DOMAIN form_data},
     files |-> ListedFiles(files)]

_create_text_bodySkipsBlank(api_key_name, form_data, files) ==
    [from |-> api_key_name,
     fields |-> {<<key, ":", "\n", form_data[key], "\n\n">> :
                    key \in {k \in DOMAIN form_data : form_data[k] # << >>}},
     files |-> ListedFiles(files)]

(* The text document as its blocks: "key:\nvalue\n\n" per item of          *)
(* form_data and "- filename (size)" per descriptor.                       *)
_create_text_body(api_key_name, form_data, files) ==
    [from |-> api_key_name,
     fields |-> {<<key, ":", "\n", form_data[key], "\n\n">> : key \in DOMAIN form_data},
     files |-> ListedFiles(files)]

(* Reading one descriptor for attachment, in both transports: the try      *)
(* block reads file_obj.file_path and its except handler formats           *)
(* file_obj.original_filename; an AttributeError in the handler leaves     *)
(* the handler and reaches the transport routine's own except clause.      *)
AttachOutcome(file_obj, d) ==
    IF HasAttr(file_obj, "file_path")
    THEN IF file_obj.items.file_path \in DOMAIN d THEN "attached" ELSE "skipped"
    ELSE IF HasAttr(file_obj, "original_filename") THEN "logged" ELSE "raised"

AttachRaises(files, d) ==
    \E i \in DOMAIN files : AttachOutcome(files[i], d) = "raised"

RECURSIVE Attachments(_, _)
Attachments(files, d) ==
    IF files = << >> THEN << >>
    ELSE LET rest == Attachments(Tail(files), d)
         IN  IF AttachOutcome(Head(files), d) = "attached"
             THEN <<[filename |-> Head(files).items.original_filename,
                     content |-> d[Head(files).items.file_path]]>> \o rest
             ELSE rest

(* os.getenv(name, default) *)
Getenv(env, name, default) == IF name \in DOMAIN env THEN env[name] ELSE default

(* Deployments: no SMTP setting, a complete SMTP account, a user name      *)
(* without a password.                                                     *)
NoEnv == [name \in {} |-> ""]

SmtpAccount ==
    [SMTP_HOST |-> "mail.example.org", SMTP_PORT |-> 2525,
     SMTP_USERNAME |-> "mailer", SMTP_PASSWORD |-> "secret"]

SmtpUserOnly == [SMTP_USERNAME |-> "mailer"]

SmtpEnvs == {NoEnv, SmtpAccount, SmtpUserOnly}

(* class Config: the SMTP settings read from the environment. *)
Config(env) ==
    [SMTP_HOST |-> Getenv(env, "SMTP_HOST", "smtp.gmail.com"),
     SMTP_PORT |-> Getenv(env, "SMTP_PORT", 587),
     SMTP_USERNAME |-> Getenv(env, "SMTP_USERNAME", ""),
     SMTP_PASSWORD |-> Getenv(env, "SMTP_PASSWORD", "")]

(* app.config.from_object(config[config_name]): the upper-case attributes  *)
(* of the class become the items of the application's config mapping.      *)
AppConfig(env) == [kind |-> "dict", items |-> Config(env)]

(* EmailService.__init__: every SMTP setting is read with getattr from     *)
(* the object it is given.                                                 *)
EmailService(config) ==
    [smtp_host |-> GetAttr(config, "SMTP_HOST", "smtp.gmail.com"),
     smtp_port |-> GetAttr(config, "SMTP_PORT", 587),
     smtp_username |-> GetAttr(config, "SMTP_USERNAME", ""),
     smtp_password |-> GetAttr(config, "SMTP_PASSWORD", "")]

(* email_service = EmailService(app.config) *)
email_service == EmailService(AppConfig(environ))

(* _send_email: the commands of the SMTP session in the order they are     *)
(* issued.                                                                 *)
_send_email(self) ==
    <<[cmd |-> "connect", host |-> self.smtp_host, port |-> self.smtp_port,
       timeout |-> SMTP_TIMEOUT],
      [cmd |-> "starttls"]>>
    \o (IF self.smtp_username # "" /\ self.smtp_password # ""
        THEN <<[cmd |-> "login", user |-> self.smtp_username,
                password |-> self.smtp_password]>>
        ELSE << >>)
    \o <<[cmd |-> "send_message"]>>

(* What one dispatcher call returned (success, error) and what it did on   *)
(* the way: the routines entered, the transports asked to send, the        *)
(* messages sent and the bodies rendered.                                  *)
DispatchResult(success, error, routines, tried, sent, html, text) ==
    [success |-> success, error |-> error, routines |-> routines,
     tried |-> tried, sent |-> sent, html |-> html, text |-> text]

(* _warm_up_network: the probe's failure is caught and logged and its      *)
(* result is dropped by the caller.                                        *)
WarmOutcomes == {"ok", "fail"}

_warm_up_network(warm) == warm = "ok"

(* net: what the remote end of the transport does with a send. *)
_send_via_resend(recipient_email, api_key_name, form_data, files, d, warm, net) ==
    LET warmed == _warm_up_network(warm)
        html == _create_html_body(api_key_name, form_data, files)
        msg == [transport |-> "resend", to |-> recipient_email, html |-> html,
                text |-> NULL, attachments |-> Attachments(files, d)]
    IN  IF files # << >> /\ AttachRaises(files, d)
        THEN DispatchResult(FALSE, "Resend error: AttributeError", {"resend"}, {}, {},
                            html, NULL)
        ELSE IF net = "ok"
             THEN DispatchResult(TRUE, NULL, {"resend"}, {"resend"}, {msg}, html, NULL)
             ELSE DispatchResult(FALSE, "Resend error: transport", {"resend"},
                                 {"resend"}, {}, html, NULL)

_send_via_smtpNoMessage(recipient_email, api_key_name, form_data, files, d, net) ==
    LET html == _create_html_body(api_key_name, form_data, files)
        text == _create_text_body(api_key_name, form_data, files)
        msg == [transport |-> "smtp", to |-> recipient_email, html |-> html,
                text |-> text, attachments |-> Attachments(files, d)]
    IN  IF files # << >> /\ AttachRaises(files, d)
        THEN DispatchResult(FALSE, NULL, {"smtp"}, {}, {}, html, text)
        ELSE IF net = "ok"
             THEN DispatchResult(TRUE, NULL, {"smtp"}, {"smtp"}, {msg}, html, text)
             ELSE DispatchResult(FALSE, NULL, {"smtp"}, {"smtp"}, {}, html, text)

_send_via_smtp(recipient_email, api_key_name, form_data, files, d, net) ==
    LET html == _create_html_body(api_key_name, form_data, files)
        text == _create_text_body(api_key_name, form_data, files)
        msg == [transport |-> "smtp", to |-> recipient_email, html |-> html,
                text |-> text, attachments |-> Attachments(files, d)]
    IN  IF files # << >> /\ AttachRaises(files, d)
        THEN DispatchResult(FALSE, "Failed to send email: AttributeError", {"smtp"},
                            {}, {}, html, text)
        ELSE IF net = "ok"
             THEN DispatchResult(TRUE, NULL, {"smtp"}, {"smtp"}, {msg}, html, text)
             ELSE DispatchResult(FALSE, "Failed to send email: transport", {"smtp"},
                                 {"smtp"}, {}, html, text)

send_submission_notificationCascade(api_key_cfg, recipient_email, api_key_name, form_data, files, d, warm, net, net2) ==
    LET first == _send_via_resend(recipient_email, api_key_name, form_data, files, d, warm, net)
        second == _send_via_smtp(recipient_email, api_key_name, form_data, files, d, net2)
    IN  IF api_key_cfg # ""
        THEN IF first.success THEN first
             ELSE DispatchResult(second.success, second.error,
                                 first.routines \cup second.routines,
                                 first.tried \cup second.tried, second.sent,
                                 second.html, second.text)
        ELSE second

(* net2 is what the other transport would do; the code never asks it.      *)
send_submission_notification(api_key_cfg, recipient_email, api_key_name, form_data, files, d, warm, net, net2) ==
    IF api_key_cfg # ""
    THEN _send_via_resend(recipient_email, api_key_name, form_data, files, d, warm, net)
    ELSE _send_via_smtp(recipient_email, api_key_name, form_data, files, d, net)

(* ------------------------------- app.py -------------------------------- *)
NoSession ==
    [key_obj |-> NoKey, submission |-> NoSubmission, file_rows |-> << >>,
     uploaded_files |-> << >>, todo |-> << >>, form_data |-> EmptyForm,
     children |-> {}]

NoResponse == [code |-> 0, message |-> NULL]

NoDispatch == DispatchResult(FALSE, NULL, {}, {}, {}, NULL, NULL)

NoHist ==
    [pre |-> NULL, key_id |-> 0, submission_id |-> 0, stored |-> {},
     dispatches |-> 0, dispatch |-> NoDispatch, net |-> NULL, used_at |-> NULL,
     db_ok |-> NULL, trace |-> << >>, smtp |-> << >>]

Snapshot ==
    [api_keys |-> api_keys, form_submissions |-> form_submissions,
     file_uploads |-> file_uploads, disk |-> disk, dirs |-> dirs]

Init ==
    /\ api_keys = [id \in {} |-> NoKey]
    /\ form_submissions = {}
    /\ file_uploads = {}
    /\ seqs = [api_key |-> 1, submission |-> 1, file |-> 1]
    /\ disk = [p \in {} |-> 0]
    /\ dirs = {}
    /\ clock = 1
    /\ started = 0
    /\ accepted = [id \in KeyIds |-> 0]
    /\ resend_api_key \in {"", "re_key"}
    /\ environ = SmtpAccount
    /\ pc = [w \in Workers |-> "idle"]
    /\ request = [w \in Workers |-> NULL]
    /\ response = [w \in Workers |-> NoResponse]
    /\ session = [w \in Workers |-> NoSession]
    /\ hist = [w \in Workers |-> NoHist]

(* request.files is a MultiDict: iterating it yields each field name once, *)
(* in order of first occurrence, and request.files[name] is the first part *)
(* of that name.                                                           *)
RECURSIVE FieldOrder(_)
FieldOrder(files) ==
    IF files = << >> THEN << >>
    ELSE LET init == FieldOrder(SubSeq(files, 1, Len(files) - 1))
             f == files[Len(files)].field
         IN  IF \E i \in DOMAIN init : init[i] = f THEN init ELSE Append(init, f)

FirstPart(files, field) ==
    files[CHOOSE i \in DOMAIN files :
              files[i].field = field /\ \A j \in DOMAIN files : files[j].field = field => i <= j]

RECURSIVE SumContent(_)
SumContent(files) ==
    IF files = << >> THEN 0 ELSE Head(files).content + SumContent(Tail(files))

(* Bytes of the request body (the file parts dominate it). *)
ContentLength(q) == SumContent(q.files)

(* werkzeug raises RequestEntityTooLarge while parsing the body only when  *)
(* app.config['MAX_CONTENT_LENGTH'] is set; create_app never sets it.      *)
TooLarge(q) == MAX_CONTENT_LENGTH # "unset" /\ ContentLength(q) > MAX_CONTENT_LENGTH

EmptyFormDataNever(form_data) == FALSE

(* not form_data *)
EmptyFormData(form_data) == DOMAIN form_data = {}

Respond(w, code, message) ==
    /\ response' = [response EXCEPT ![w] = [code |-> code, message |-> message]]
    /\ pc' = [pc EXCEPT ![w] = "teardown"]

InvalidKeyMessageTellsApart(keys, api_key) ==
    IF \E id \in DOMAIN keys : keys[id].key = api_key
    THEN "API key is inactive"
    ELSE "Invalid API key"

(* error_response('Invalid or inactive API key', 401): one message for a   *)
(* token that matches no row and for a token whose row is deactivated.     *)
InvalidKeyMessage(keys, api_key) == "Invalid or inactive API key"

AfterFileNotifiesAtOnce(todo) == "notify"

(* The loop over request.files runs while fields are left; the dispatcher  *)
(* call follows the loop.                                                  *)
AfterFile(todo) == IF todo = << >> THEN "notify" ELSE "files"

(* submit_form, lines 88-112: credential check, body parsing, empty-data   *)
(* check, sanitization, staging and flush of the Submission.               *)
SubmitBegin(w, q) ==
    /\ pc[w] = "idle"
    /\ started' = started + 1
    /\ request' = [request EXCEPT ![w] = q]
    /\ UNCHANGED <<api_keys, form_submissions, file_uploads, disk, dirs, clock,
                   accepted, resend_api_key, environ>>
    /\ LET key_obj == QueryActiveKey(api_keys, q.api_key)
           h == [NoHist EXCEPT !.pre = Snapshot, !.key_id = key_obj.id]
       IN  IF key_obj.id = 0
           THEN /\ Respond(w, 401, InvalidKeyMessage(api_keys, q.api_key))
                /\ hist' = [hist EXCEPT ![w] = [h EXCEPT !.trace = <<"credential">>]]
                /\ session' = [session EXCEPT ![w] = NoSession]
                /\ UNCHANGED seqs
           ELSE IF TooLarge(q)
           THEN /\ Respond(w, 500, "Failed to process form submission")
                /\ hist' = [hist EXCEPT ![w] = [h EXCEPT !.trace = <<"credential">>]]
                /\ session' = [session EXCEPT ![w] = NoSession]
                /\ UNCHANGED seqs
           ELSE IF EmptyFormData(q.form)
           THEN /\ Respond(w, 400, "No form data provided")
                /\ hist' = [hist EXCEPT ![w] =
                       [h EXCEPT !.trace = <<"credential", "validate">>]]
                /\ session' = [session EXCEPT ![w] = [NoSession EXCEPT !.key_obj = key_obj]]
                /\ UNCHANGED seqs
           ELSE LET form_data == sanitize_form_data(q.form)
                    todo == FieldOrder(q.files)
                IN  /\ session' = [session EXCEPT ![w] =
                           [key_obj |-> key_obj,
                            submission |-> NewSubmission(seqs.submission, key_obj.id, form_data),
                            file_rows |-> << >>, uploaded_files |-> << >>,
                            todo |-> todo, form_data |-> form_data,
                            children |-> {}]]
                    /\ seqs' = [seqs EXCEPT !.submission = @ + 1]
                    /\ hist' = [hist EXCEPT ![w] =
                           [h EXCEPT !.submission_id = seqs.submission,
                                     !.trace = <<"credential", "validate", "sanitize", "stage">>]]
                    /\ response' = [response EXCEPT ![w] = NoResponse]
                    /\ pc' = [pc EXCEPT ![w] = AfterFile(todo)]

(* utils.save_uploaded_file: "ok" writes the whole stream; "fail" raises   *)
(* before any byte is written; "partial" raises after a truncated write.   *)
SaveOutcomes == {"ok", "fail", "partial"}

StoreFailedSkipsFile(w, rest) ==
    /\ response' = response
    /\ pc' = [pc EXCEPT ![w] = AfterFile(rest)]
    /\ session' = [session EXCEPT ![w].todo = rest]
    /\ hist' = [hist EXCEPT ![w].trace = Append(@, "store_failed")]

(* submit_form, lines 147-149: the except clause around storing one file   *)
(* returns 500 from inside the loop.                                       *)
StoreFailed(w, rest) ==
    /\ Respond(w, 500, "Failed to upload file")
    /\ session' = session
    /\ hist' = [hist EXCEPT ![w].trace = Append(@, "store_failed")]

(* submit_form, lines 117-149: one iteration of the loop over              *)
(* request.files.                                                          *)
StoreFile(w, rnd, outcome) ==
    /\ pc[w] = "files"
    /\ session[w].todo # << >>
    /\ UNCHANGED <<api_keys, form_submissions, file_uploads, seqs, clock, started,
                   accepted, resend_api_key, environ, request>>
    /\ LET sess == session[w]
           file == FirstPart(request[w].files, Head(sess.todo))
           rest == Tail(sess.todo)
           now == clock
           stored_filename == StoredFilename(file.filename, now, rnd)
           file_path == FilePath(sess.key_obj.id, now, stored_filename)
           file_upload == NewFileUpload(sess.submission.id, file.filename,
                              stored_filename, file_path, file.content)
       IN  IF file.filename = << >>
           THEN /\ session' = [session EXCEPT ![w].todo = rest]
                /\ pc' = [pc EXCEPT ![w] = AfterFile(rest)]
                /\ UNCHANGED <<disk, dirs, response, hist>>
           ELSE IF ~allowed_file(file.filename, ALLOWED_EXTENSIONS)
           THEN /\ Respond(w, 400, "File type not allowed")
                /\ UNCHANGED <<disk, dirs, session, hist>>
           ELSE /\ dirs' = MkDirs(dirs, sess.key_obj.id, now)
                /\ IF outcome = "ok"
                   THEN /\ disk' = WriteFile(disk, file_path, file.content)
                        /\ session' = [session EXCEPT ![w] =
                               [sess EXCEPT !.file_rows = Append(@, file_upload),
                                            !.uploaded_files = Append(@, to_dict(file_upload)),
                                            !.todo = rest]]
                        /\ hist' = [hist EXCEPT ![w].stored = @ \cup {file_path},
                                                ![w].trace = Append(@, "store")]
                        /\ response' = response
                        /\ pc' = [pc EXCEPT ![w] = AfterFile(rest)]
                   ELSE /\ disk' = IF outcome = "partial"
                                   THEN WriteFile(disk, file_path, file.content \div 2)
                                   ELSE disk
                        /\ StoreFailed(w, rest)

NetOutcomes == {"ok", "fail"}

RecordOutcomeNoError(submission, success, error_msg) ==
    [submission EXCEPT !.email_sent = success]

(* submission.email_sent = success; if not success: submission.email_error *)
(* = error_msg                                                             *)
RecordOutcome(submission, success, error_msg) ==
    [submission EXCEPT !.email_sent = success,
                       !.email_error = IF success THEN @ ELSE error_msg]

(* submit_form, lines 151-165: the dispatcher call and the recording of    *)
(* its result on the staged Submission.                                    *)
Notify(w, warm, net, net2) ==
    /\ pc[w] = "notify"
    /\ LET sess == session[w]
           res == send_submission_notification(resend_api_key,
                      sess.key_obj.recipient_email, sess.key_obj.name,
                      sess.form_data, sess.uploaded_files, disk, warm, net, net2)
       IN  /\ session' = [session EXCEPT ![w].submission =
                  RecordOutcome(@, res.success, res.error)]
           /\ hist' = [hist EXCEPT ![w].dispatches = @ + 1,
                                   ![w].dispatch = res,
                                   ![w].net = net,
                                   ![w].smtp = IF "smtp" \in res.tried
                                               THEN _send_email(email_service)
                                               ELSE << >>,
                                   ![w].trace = Append(@, "dispatch")]
    /\ pc' = [pc EXCEPT ![w] = "commit"]
    /\ UNCHANGED <<api_keys, form_submissions, file_uploads, seqs, disk, dirs,
                   clock, started, accepted, resend_api_key, environ, request, response>>

RECURSIVE NumberRows(_, _)
NumberRows(rows, first) ==
    IF rows = << >> THEN {}
    ELSE {[id |-> first] @@ Head(rows)} \cup NumberRows(Tail(rows), first + 1)

(* The UPDATE the unit of work emits for the credential: it writes the     *)
(* values held by the session's object.                                    *)
UpdateKeyRow(row, key_obj) ==
    [row EXCEPT !.usage_count = key_obj.usage_count, !.last_used = key_obj.last_used]

(* submit_form, lines 167-184: increment_usage on the loaded credential,   *)
(* commit, and the except clause (rollback, 500) when the commit raises.   *)
Commit(w, db_ok) ==
    /\ pc[w] = "commit"
    /\ UNCHANGED <<disk, dirs, clock, started, resend_api_key, environ, request>>
    /\ LET sess == session[w]
           key_obj == increment_usage(sess.key_obj, clock)
       IN  IF db_ok /\ key_obj.id \in DOMAIN api_keys
           THEN /\ api_keys' = [api_keys EXCEPT ![key_obj.id] = UpdateKeyRow(@, key_obj)]
                /\ form_submissions' = form_submissions \cup {sess.submission}
                /\ file_uploads' = file_uploads \cup NumberRows(sess.file_rows, seqs.file)
                /\ seqs' = [seqs EXCEPT !.file = @ + Len(sess.file_rows)]
                /\ session' = [session EXCEPT ![w] = NoSession]
                /\ hist' = [hist EXCEPT ![w].used_at = clock, ![w].db_ok = db_ok,
                                        ![w].trace = @ \o <<"increment", "commit">>]
                /\ accepted' = [accepted EXCEPT ![key_obj.id] = @ + 1]
                /\ Respond(w, 201, "Form submitted successfully")
           ELSE /\ session' = [session EXCEPT ![w] = NoSession]
                /\ hist' = [hist EXCEPT ![w].db_ok = db_ok,
                                        ![w].trace = @ \o <<"increment", "rollback">>]
                /\ Respond(w, 500, "Failed to process form submission")
                /\ UNCHANGED <<api_keys, form_submissions, file_uploads, seqs, accepted>>

SessionRemoveFlushes(sess, submissions) ==
    IF sess.submission.id # 0 THEN submissions \cup {sess.submission} ELSE submissions

(* The Submission rows after db.session.remove(): the transaction of a     *)
(* session that was never committed is rolled back, its flushed INSERT     *)
(* included.                                                               *)
SessionRemove(sess, submissions) == submissions

(* End of the request: the application context is torn down, the           *)
(* request-scoped session is removed and the response goes out.            *)
Teardown(w) ==
    /\ pc[w] = "teardown"
    /\ form_submissions' = SessionRemove(session[w], form_submissions)
    /\ session' = [session EXCEPT ![w] = NoSession]
    /\ pc' = [pc EXCEPT ![w] = "done"]
    /\ UNCHANGED <<api_keys, file_uploads, seqs, disk, dirs,
                   clock, started, accepted, resend_api_key, environ, request, response, hist>>

(* The worker is free for its next request. *)
Release(w) ==
    /\ pc[w] = "done"
    /\ pc' = [pc EXCEPT ![w] = "idle"]
    /\ request' = [request EXCEPT ![w] = NULL]
    /\ response' = [response EXCEPT ![w] = NoResponse]
    /\ hist' = [hist EXCEPT ![w] = NoHist]
    /\ UNCHANGED <<api_keys, form_submissions, file_uploads, seqs, disk, dirs,
                   clock, started, accepted, resend_api_key, environ, session>>

(* ------------------------- admin operations ---------------------------- *)
KeyNames == {"site"}
Recipients == {"owner@example.com"}

(* create_api_key: the unique index on api_keys.key turns a repeated       *)
(* generate_key() into a failed commit (rollback, 500).                    *)
CreateApiKeyTx(key, name, recipient_email) ==
    /\ seqs.api_key <= MaxKeys
    /\ seqs' = [seqs EXCEPT !.api_key = @ + 1]
    /\ IF \E id \in DOMAIN api_keys : api_keys[id].key = key
       THEN api_keys' = api_keys
       ELSE api_keys' = [id \in DOMAIN api_keys \cup {seqs.api_key} |->
                            IF id = seqs.api_key
                            THEN NewApiKey(id, key, name, recipient_email, clock)
                            ELSE api_keys[id]]
    /\ UNCHANGED <<form_submissions, file_uploads, disk, dirs,
                   clock, started, accepted, resend_api_key, environ>>

CreateApiKey(key, name, recipient_email) ==
    /\ CreateApiKeyTx(key, name, recipient_email)
    /\ UNCHANGED <<pc, request, response, session, hist>>

(* update_api_key with 'is_active' in the body *)
UpdateApiKeyTx(key_id, is_active) ==
    /\ key_id \in DOMAIN api_keys
    /\ api_keys[key_id].is_active # is_active
    /\ api_keys' = [api_keys EXCEPT ![key_id].is_active = is_active]
    /\ UNCHANGED <<form_submissions, file_uploads, seqs, disk, dirs,
                   clock, started, accepted, resend_api_key, environ>>

UpdateApiKey(key_id, is_active) ==
    /\ UpdateApiKeyTx(key_id, is_active)
    /\ UNCHANGED <<pc, request, response, session, hist>>

(* JSON bodies of PUT /api/keys/<id>; a body may name any field. *)
UpdateBodies ==
    {[is_active |-> FALSE], [is_active |-> TRUE],
     [name |-> "shop", recipient_email |-> "sales@example.com"],
     [key |-> "k2", name |-> "shop"]}

Field(data, row, a) == IF a \in DOMAIN data THEN data[a] ELSE row[a]

UpdateApiKeyBodyAnyField(key_id, data) ==
    /\ key_id \in DOMAIN api_keys
    /\ LET row == api_keys[key_id]
       IN  api_keys' = [api_keys EXCEPT ![key_id] =
               [a \in DOMAIN row |-> Field(data, row, a)]]
    /\ UNCHANGED <<form_submissions, file_uploads, seqs, disk, dirs, clock, started,
                   accepted, resend_api_key, environ, pc, request, response, session, hist>>

(* update_api_key: of the body's fields, name, recipient_email and         *)
(* is_active are assigned (description is not modelled); any other field   *)
(* is ignored.                                                             *)
UpdateApiKeyBody(key_id, data) ==
    /\ key_id \in DOMAIN api_keys
    /\ LET row == api_keys[key_id]
       IN  api_keys' = [api_keys EXCEPT ![key_id] =
               [row EXCEPT !.name = Field(data, row, "name"),
                           !.recipient_email = Field(data, row, "recipient_email"),
                           !.is_active = Field(data, row, "is_active")]]
    /\ UNCHANGED <<form_submissions, file_uploads, seqs, disk, dirs, clock, started,
                   accepted, resend_api_key, environ, pc, request, response, session, hist>>

(* delete_api_key: the relationships cascade the delete to the key's       *)
(* submissions and to their files' rows.                                   *)
DeleteApiKeyTx(key_id) ==
    /\ key_id \in DOMAIN api_keys
    /\ LET gone == {s \in form_submissions : s.api_key_id = key_id}
           gone_ids == {s.id : s \in gone}
       IN  /\ api_keys' = [id \in DOMAIN api_keys \ {key_id} |-> api_keys[id]]
           /\ form_submissions' = form_submissions \ gone
           /\ file_uploads' = {f \in file_uploads : f.submission_id \notin gone_ids}
    /\ UNCHANGED <<seqs, disk, dirs, clock,
                   started, accepted, resend_api_key, environ>>

DeleteApiKey(key_id) ==
    /\ DeleteApiKeyTx(key_id)
    /\ UNCHANGED <<pc, request, response, session, hist>>

(* The FOR KEY SHARE lock that the foreign-key check of a flushed,         *)
(* uncommitted INSERT into form_submissions holds on its api_keys row: a   *)
(* DELETE of that row waits until the inserting transaction ends.          *)
KeyShareLocked(key_id) ==
    \E v \in Workers :
        session[v].submission.id # 0 /\ session[v].submission.api_key_id = key_id

(* delete_api_key, lines 373-377: the key is loaded and marked deleted;    *)
(* the cascade loads the key's submissions that are committed by now.      *)
DeleteApiKeyLoad(w, key_id) ==
    /\ pc[w] = "idle"
    /\ key_id \in DOMAIN api_keys
    /\ session' = [session EXCEPT ![w] =
           [NoSession EXCEPT !.key_obj = api_keys[key_id],
                             !.children = {s \in form_submissions : s.api_key_id = key_id}]]
    /\ pc' = [pc EXCEPT ![w] = "delete_key"]
    /\ UNCHANGED <<api_keys, form_submissions, file_uploads, seqs, disk, dirs, clock,
                   started, accepted, resend_api_key, environ, request, response, hist>>

ForeignKeyUnchecked(key_id, children) == TRUE

(* form_submissions.api_key_id REFERENCES api_keys(id): the row of a key    *)
(* can be deleted when no submission outside the ones deleted with it      *)
(* refers to it.                                                           *)
ForeignKeyAllowsDelete(key_id, children) ==
    \A s \in form_submissions : s.api_key_id = key_id => s \in children

(* delete_api_key, lines 378-387: the commit deletes the loaded            *)
(* submissions, their files' rows and the key; a refused DELETE is rolled  *)
(* back and answered 500.                                                  *)
DeleteApiKeyCommit(w) ==
    /\ pc[w] = "delete_key"
    /\ ~KeyShareLocked(session[w].key_obj.id)
    /\ LET key_id == session[w].key_obj.id
           gone == session[w].children \cap form_submissions
           gone_ids == {s.id : s \in gone}
       IN  IF key_id \in DOMAIN api_keys /\ ForeignKeyAllowsDelete(key_id, session[w].children)
           THEN /\ api_keys' = [id \in DOMAIN api_keys \ {key_id} |-> api_keys[id]]
                /\ form_submissions' = form_submissions \ gone
                /\ file_uploads' = {f \in file_uploads : f.submission_id \notin gone_ids}
           ELSE UNCHANGED <<api_keys, form_submissions, file_uploads>>
    /\ session' = [session EXCEPT ![w] = NoSession]
    /\ pc' = [pc EXCEPT ![w] = "idle"]
    /\ UNCHANGED <<seqs, disk, dirs, clock, started, accepted, resend_api_key, environ,
                   request, response, hist>>

(* delete_submission: db.session.delete(submission) with the cascade to    *)
(* its files' rows, then the commit.                                       *)
DeleteSubmissionTx(submission_id) ==
    /\ \E s \in form_submissions : s.id = submission_id
    /\ form_submissions' = {s \in form_submissions : s.id # submission_id}
    /\ file_uploads' = {f \in file_uploads : f.submission_id # submission_id}
    /\ UNCHANGED <<api_keys, seqs, disk, dirs,
                   clock, started, accepted, resend_api_key, environ>>

DeleteSubmissionRemovesFiles(submission_id) ==
    /\ \E s \in form_submissions : s.id = submission_id
    /\ form_submissions' = {s \in form_submissions : s.id # submission_id}
    /\ file_uploads' = {f \in file_uploads : f.submission_id # submission_id}
    /\ LET gone == {f.file_path : f \in file_uploads \ file_uploads'}
       IN  disk' = [p \in DOMAIN disk \ gone |-> disk[p]]
    /\ UNCHANGED <<api_keys, seqs, dirs, clock, started, accepted,
                   resend_api_key, environ, pc, request, response, session, hist>>

DeleteSubmission(submission_id) ==
    /\ DeleteSubmissionTx(submission_id)
    /\ UNCHANGED <<pc, request, response, session, hist>>

(* datetime.utcnow() advances *)
Tick ==
    /\ clock < MaxClock
    /\ clock' = clock + 1
    /\ UNCHANGED <<api_keys, form_submissions, file_uploads, seqs, disk, dirs,
                   started, accepted, resend_api_key, environ, pc, request, response,
                   session, hist>>

(* ---------------------------- specifications --------------------------- *)
Quiet == \A w \in Workers : pc[w] = "idle"

(* Spec: requests and admin operations arrive one after the other and are  *)
(* all served by the first worker.                                         *)
Next ==
    \/ \E q \in SubmitInputs : started < MaxRequests /\ SubmitBegin(1, q)
    \/ \E rnd \in RandomHex, outcome \in SaveOutcomes : StoreFile(1, rnd, outcome)
    \/ \E warm \in WarmOutcomes, net \in NetOutcomes, net2 \in NetOutcomes :
          Notify(1, warm, net, net2)
    \/ \E db_ok \in BOOLEAN : Commit(1, db_ok)
    \/ Teardown(1)
    \/ Release(1)
    \/ \E key \in Tokens, name \in KeyNames, to \in Recipients :
          Quiet /\ CreateApiKey(key, name, to)
    \/ \E key_id \in KeyIds, is_active \in BOOLEAN : Quiet /\ UpdateApiKey(key_id, is_active)
    \/ \E key_id \in KeyIds : Quiet /\ DeleteApiKey(key_id)
    \/ \E id \in 1..MaxRequests : Quiet /\ DeleteSubmission(id)
    \/ Quiet /\ Tick

Spec == Init /\ [][Next]_vars

(* ConcSpec: every worker serves one request against a deployment whose    *)
(* storage, transport and database do not fail, and the workers' steps     *)
(* interleave freely.                                                      *)
PartOk == [field |-> "f1", filename |-> NameOk, content |-> 2]

ConcInputs == [api_key : Tokens, form : {FormA}, files : {<< >>, <<PartOk>>}]

ConcNext ==
    \/ \E w \in Workers, q \in ConcInputs : SubmitBegin(w, q)
    \/ \E w \in Workers, rnd \in RandomHex : StoreFile(w, rnd, "ok")
    \/ \E w \in Workers : Notify(w, "ok", "ok", "ok")
    \/ \E w \in Workers : Commit(w, TRUE)
    \/ \E w \in Workers : Teardown(w)
    \/ \E key \in Tokens, name \in KeyNames, to \in Recipients :
          Quiet /\ CreateApiKey(key, name, to)

ConcSpec == Init /\ [][ConcNext]_vars

(* RaceSpec: the first worker serves submit requests step by step while   *)
(* the second serves admin deletions and key creations, which fall        *)
(* anywhere between the steps of a submit request.                         *)
RaceNext ==
    \/ \E q \in ConcInputs : started < MaxRequests /\ SubmitBegin(1, q)
    \/ \E rnd \in RandomHex, outcome \in SaveOutcomes : StoreFile(1, rnd, outcome)
    \/ \E net \in NetOutcomes : Notify(1, "ok", net, net)
    \/ \E db_ok \in BOOLEAN : Commit(1, db_ok)
    \/ Teardown(1)
    \/ Release(1)
    \/ \E key \in Tokens, name \in KeyNames, to \in Recipients : CreateApiKey(key, name, to)
    \/ \E key_id \in KeyIds : DeleteApiKeyLoad(2, key_id)
    \/ DeleteApiKeyCommit(2)
    \/ \E id \in 1..MaxRequests : DeleteSubmission(id)

RaceSpec == Init /\ [][RaceNext]_vars

(* AdminSpec: the admin operations on credentials, with every body of     *)
(* update_api_key, between submit requests that a working deployment       *)
(* serves.                                                                 *)
AdminNext ==
    \/ \E q \in ConcInputs : started < MaxRequests /\ SubmitBegin(1, q)
    \/ \E rnd \in RandomHex : StoreFile(1, rnd, "ok")
    \/ Notify(1, "ok", "ok", "ok")
    \/ Commit(1, TRUE)
    \/ Teardown(1)
    \/ Release(1)
    \/ \E key \in Tokens, name \in KeyNames, to \in Recipients :
          Quiet /\ CreateApiKey(key, name, to)
    \/ \E key_id \in KeyIds, data \in UpdateBodies :
          Quiet /\ UpdateApiKeyBody(key_id, data)
    \/ \E key_id \in KeyIds : Quiet /\ DeleteApiKey(key_id)

AdminSpec == Init /\ [][AdminNext]_vars

(* SanitizeSpec: sanitize_form_data applied to one form drawn from forms   *)
(* whose value is a run of letters as long as the limit or one character   *)
(* around it, between a short prefix and a short suffix of blanks, NULs    *)
(* and letters.                                                            *)
Run(n) == [i \in 1..n |-> "a"]

RunLengths == {0, 1, MAX_VALUE_LEN - 1, MAX_VALUE_LEN}

EdgeChars == {" ", "NUL", "b"}

SanValues ==
    {pre \o Run(n) \o suf : pre \in SeqsUpTo(EdgeChars, MaxPrefix),
                             n \in RunLengths,
                             suf \in SeqsUpTo(EdgeChars, MaxSuffix)}

SanForms == {[name |-> v] : v \in SanValues} \cup {FormA, EmptyForm}

SanInit ==
    /\ api_keys = [id \in {} |-> NoKey]
    /\ form_submissions = {}
    /\ file_uploads = {}
    /\ seqs = [api_key |-> 1, submission |-> 1, file |-> 1]
    /\ disk = [p \in {} |-> 0]
    /\ dirs = {}
    /\ clock = 1
    /\ started = 0
    /\ accepted = [id \in KeyIds |-> 0]
    /\ resend_api_key = ""
    /\ environ = SmtpAccount
    /\ pc = [w \in Workers |-> "idle"]
    /\ \E form \in SanForms :
          request = [w \in Workers |->
                        IF w = 1 THEN [api_key |-> "k1", form |-> form, files |-> << >>]
                        ELSE NULL]
    /\ response = [w \in Workers |-> NoResponse]
    /\ session = [w \in Workers |-> NoSession]
    /\ hist = [w \in Workers |-> NoHist]

(* form_data = sanitize_form_data(form_data) *)
Sanitize(w) ==
    /\ pc[w] = "idle"
    /\ session' = [session EXCEPT ![w].form_data = sanitize_form_data(request[w].form)]
    /\ pc' = [pc EXCEPT ![w] = "sanitized"]
    /\ UNCHANGED <<api_keys, form_submissions, file_uploads, seqs, disk, dirs, clock,
                   started, accepted, resend_api_key, environ, request, response, hist>>

SanitizeNext == Sanitize(1)

SanitizeSpec == SanInit /\ [][SanitizeNext]_vars

(* StoreSpec: every worker serves one request that uploads the same client *)
(* filename, once or twice, for the same or another tenant, all within     *)
(* one second.  secrets.token_hex(8) is taken as drawing a value that no   *)
(* file on disk carries yet (64 random bits per call); values are only     *)
(* compared for equality, so the least such value stands for any of them.  *)
PartSame == [field |-> "f2", filename |-> NameOk, content |-> 1]

StoreInputs == [api_key : Tokens, form : {FormA}, files : {<<PartOk>>, <<PartOk, PartSame>>}]

(* the two workers whose requests run side by side *)
StoreWorkers == {1, 2}

TokenHex == 1..(Cardinality(StoreWorkers) * MaxFiles)

Drawn == {p.name.token : p \in DOMAIN disk}

Fresh(rnd) == rnd \notin Drawn /\ \A r \in TokenHex : r < rnd => r \in Drawn

StoreNext ==
    \/ \E w \in StoreWorkers, q \in StoreInputs : SubmitBegin(w, q)
    \/ \E w \in StoreWorkers, rnd \in TokenHex, outcome \in SaveOutcomes :
          Fresh(rnd) /\ StoreFile(w, rnd, outcome)
    \/ \E w \in StoreWorkers : Notify(w, "ok", "ok", "ok")
    \/ \E w \in StoreWorkers : Commit(w, TRUE)
    \/ \E w \in StoreWorkers : Teardown(w)
    \/ \E key \in Tokens, name \in KeyNames, to \in Recipients :
          Quiet /\ CreateApiKey(key, name, to)

StoreSpec == Init /\ [][StoreNext]_vars

(* LiveSpec: one request served to its end by a worker that takes its     *)
(* next step whenever it has one, against a remote end that answers,       *)
(* refuses or never answers.                                               *)
RemoteOutcomes == {"ok", "fail", "hang"}

(* if self.resend_api_key: ... else: ... *)
ChosenTransport == IF resend_api_key # "" THEN "resend" ELSE "smtp"

TimeoutOf(transport) == IF transport = "smtp" THEN <<SMTP_TIMEOUT>> ELSE << >>

(* A send whose remote end never answers: with a timeout the call raises   *)
(* when it expires and the routine returns a failure; without one the      *)
(* call does not return.                                                   *)
Send(w, net) ==
    /\ pc[w] = "notify"
    /\ IF net = "hang" /\ TimeoutOf(ChosenTransport) = << >>
       THEN /\ pc' = [pc EXCEPT ![w] = "sending"]
            /\ UNCHANGED <<api_keys, form_submissions, file_uploads, seqs, disk, dirs,
                           clock, started, accepted, resend_api_key, environ, request, response,
                           session, hist>>
       ELSE Notify(w, "ok", IF net = "hang" THEN "fail" ELSE net, "ok")

LiveNext ==
    \/ \E q \in ConcInputs : started < MaxRequests /\ SubmitBegin(1, q)
    \/ \E rnd \in RandomHex, outcome \in SaveOutcomes : StoreFile(1, rnd, outcome)
    \/ \E net \in RemoteOutcomes : Send(1, net)
    \/ Commit(1, TRUE)
    \/ Teardown(1)
    \/ \E key \in Tokens, name \in KeyNames, to \in Recipients :
          Quiet /\ CreateApiKey(key, name, to)
    \/ \E key_id \in KeyIds, is_active \in BOOLEAN : Quiet /\ UpdateApiKey(key_id, is_active)
    \/ Quiet /\ Tick

(* where a worker stands in its request *)
position == <<pc, session>>

LiveSpec ==
    /\ Init /\ [][LiveNext]_vars
    /\ WF_position(\E rnd \in RandomHex, outcome \in SaveOutcomes : StoreFile(1, rnd, outcome))
    /\ WF_position(\E net \in RemoteOutcomes : Send(1, net))
    /\ WF_position(Commit(1, TRUE))
    /\ WF_position(Teardown(1))

(* ------------------------------ properties ----------------------------- *)
Done(w) == pc[w] = "done"

(* A credential with this token exists and is active. *)
KeyActiveIn(keys, api_key) ==
    \E id \in DOMAIN keys : keys[id].key = api_key /\ keys[id].is_active

KeyInactiveIn(keys, api_key) ==
    \E id \in DOMAIN keys : keys[id].key = api_key /\ ~keys[id].is_active

ValidKey(w) == KeyActiveIn(hist[w].pre.api_keys, request[w].api_key)

TablesUnchanged(w) ==
    /\ api_keys = hist[w].pre.api_keys
    /\ form_submissions = hist[w].pre.form_submissions
    /\ file_uploads = hist[w].pre.file_uploads

StorageUnchanged(w) ==
    /\ disk = hist[w].pre.disk
    /\ dirs = hist[w].pre.dirs

Uploaded(part) == part.filename # << >>

AllAllowed(files) ==
    \A i \in DOMAIN files :
        Uploaded(files[i]) /\ allowed_file(files[i].filename, ALLOWED_EXTENSIONS)

SomeDisallowed(files) ==
    \E i \in DOMAIN files :
        Uploaded(files[i]) /\ ~allowed_file(files[i].filename, ALLOWED_EXTENSIONS)

AttachmentsOf(submission_id) == {f \in file_uploads : f.submission_id = submission_id}

(* C1: a finished submit request whose key was unknown or deactivated was  *)
(* answered 401, and no row of any table was created or changed (no        *)
(* Submission, and the credential's usage counter and last-used            *)
(* timestamp are as before).                                               *)
C1_InvalidKeyRejected ==
    \A w \in Workers :
        Done(w) /\ ~ValidKey(w) => response[w].code = 401 /\ TablesUnchanged(w)

C1_Witness ==
    \E w \in Workers :
        /\ Done(w)
        /\ KeyInactiveIn(hist[w].pre.api_keys, request[w].api_key)
        /\ request[w].form # EmptyForm
        /\ response[w].code = 401

(* C2: a finished submit request with a valid key and an empty form-data   *)
(* mapping was answered 400, created no row and stored no file, with or    *)
(* without file parts.                                                     *)
C2_EmptyPayloadRejected ==
    \A w \in Workers :
        Done(w) /\ ValidKey(w) /\ request[w].form = EmptyForm
            => response[w].code = 400 /\ TablesUnchanged(w) /\ StorageUnchanged(w)

C2_Witness ==
    \E w \in Workers :
        /\ Done(w) /\ ValidKey(w)
        /\ request[w].form = EmptyForm
        /\ request[w].files # << >>
        /\ response[w].code = 400

(* C3: a finished submit request (valid key, non-empty form) that carried  *)
(* a file with a disallowed extension was answered 400 and left no row,    *)
(* no file and no directory behind, wherever that file stood among the     *)
(* uploaded files.                                                         *)
C3_ExtensionGateAllOrNothing ==
    \A w \in Workers :
        Done(w) /\ ValidKey(w) /\ request[w].form # EmptyForm
                /\ SomeDisallowed(request[w].files)
            => response[w].code = 400 /\ TablesUnchanged(w) /\ StorageUnchanged(w)

(* C4: a submit request answered 201 that carried N uploaded files, all    *)
(* with allowed extensions, has exactly N committed Attachment rows, and   *)
(* its credential's usage counter is one more than before and its          *)
(* last-used timestamp is the time of the request.                         *)
C4_AttachmentsAndUsage ==
    \A w \in Workers :
        Done(w) /\ response[w].code = 201 /\ AllAllowed(request[w].files)
            => /\ Cardinality(AttachmentsOf(hist[w].submission_id)) = Len(request[w].files)
               /\ api_keys[hist[w].key_id].usage_count
                     = hist[w].pre.api_keys[hist[w].key_id].usage_count + 1
               /\ api_keys[hist[w].key_id].last_used = hist[w].used_at

(* C5: the usage counter of every credential equals the number of submit   *)
(* requests accepted against it, whatever the interleaving of the          *)
(* workers.                                                                *)
C5_NoLostUpdate ==
    \A id \in DOMAIN api_keys : api_keys[id].usage_count = accepted[id]

(* C6: a finished submit request whose notification transport failed, and  *)
(* whose commit the database did not refuse, was answered 201 and its      *)
(* committed Submission has email_sent = false and a non-empty             *)
(* email_error.                                                            *)
C6_NotificationFailureAbsorbed ==
    \A w \in Workers :
        Done(w) /\ hist[w].dispatches > 0 /\ hist[w].net = "fail" /\ hist[w].db_ok = TRUE
            => /\ response[w].code = 201
               /\ \E s \in form_submissions :
                     /\ s.id = hist[w].submission_id
                     /\ s.email_sent = FALSE
                     /\ s.email_error \notin {NULL, ""}

C6_Witness ==
    \E w \in Workers :
        /\ Done(w) /\ hist[w].net = "fail" /\ hist[w].db_ok = TRUE
        /\ hist[w].dispatch.tried # {}
        /\ response[w].code = 201

C8_TooLargeRejected ==
    \A w \in Workers :
        Done(w) /\ ContentLength(request[w]) > MAX_FILE_SIZE
            => response[w].code = 413 /\ TablesUnchanged(w) /\ StorageUnchanged(w)

(* C9: a dispatcher call enters exactly one transport routine, the primary *)
(* one if its credential is configured and the fallback one otherwise,     *)
(* and sends on no other transport, also when that transport fails.        *)
C9_OneTransportPerCall ==
    \A w \in Workers :
        hist[w].dispatches > 0
            => LET d == hist[w].dispatch
                   chosen == IF resend_api_key # "" THEN "resend" ELSE "smtp"
               IN  /\ d.routines = {chosen}
                   /\ d.tried \subseteq {chosen}
                   /\ \A m \in d.sent : m.transport = chosen

C9_Witness ==
    \E w \in Workers :
        /\ hist[w].dispatches > 0
        /\ resend_api_key # ""
        /\ hist[w].dispatch.tried = {"resend"}
        /\ ~hist[w].dispatch.success

(* C10: a submit request answered 201 that stored attachments and whose    *)
(* transport works was delivered (email_sent = true), and the message      *)
(* carries the full content of every stored file that is on disk.          *)
C10_AttachmentsDelivered ==
    \A w \in Workers :
        Done(w) /\ response[w].code = 201 /\ hist[w].stored # {} /\ hist[w].net = "ok"
            => /\ \E s \in form_submissions :
                     s.id = hist[w].submission_id /\ s.email_sent = TRUE
               /\ \E m \in hist[w].dispatch.sent :
                     \A f \in AttachmentsOf(hist[w].submission_id) :
                        f.file_path \in DOMAIN disk
                            => \E i \in DOMAIN m.attachments :
                                  /\ m.attachments[i].filename = f.original_filename
                                  /\ m.attachments[i].content = disk[f.file_path]

(* C11: every dispatcher call returns to its caller, and what it returns   *)
(* is either (true, no error) or (false, a non-empty error string),        *)
(* whatever the warm-up probe, the attachment reading and the transport    *)
(* did.                                                                    *)
C11_DispatcherReturnsResult ==
    \A w \in Workers :
        hist[w].dispatches > 0
            => LET d == hist[w].dispatch
               IN  /\ pc[w] # "notify"
                   /\ \/ d.success = TRUE /\ d.error = NULL
                      \/ d.success = FALSE /\ d.error \notin {NULL, ""}

(* the fallback transport gave up while reading the attachments *)
C11_Witness ==
    \E w \in Workers :
        /\ hist[w].dispatches > 0
        /\ resend_api_key = ""
        /\ hist[w].dispatch.routines = {"smtp"}
        /\ hist[w].dispatch.tried = {}
        /\ ~hist[w].dispatch.success

RejectedKeyResponse == [code |-> 401, message |-> "Invalid or inactive API key"]

UnknownKey(w) ==
    \A id \in DOMAIN hist[w].pre.api_keys :
        hist[w].pre.api_keys[id].key # request[w].api_key

NothingDone(w) ==
    /\ TablesUnchanged(w) /\ StorageUnchanged(w)
    /\ hist[w].submission_id = 0 /\ hist[w].dispatches = 0

(* C12: a finished submit request whose token matches no credential and    *)
(* one whose token matches a deactivated credential get one and the same   *)
(* response, status and body, and both leave the tables and the storage    *)
(* as they were; nothing was staged or dispatched for either.              *)
C12_UnknownAndInactiveAlike ==
    \A w \in Workers :
        /\ Done(w) /\ UnknownKey(w)
              => response[w] = RejectedKeyResponse /\ NothingDone(w)
        /\ Done(w) /\ KeyInactiveIn(hist[w].pre.api_keys, request[w].api_key)
              => response[w] = RejectedKeyResponse /\ NothingDone(w)

(* an unknown token, sent while another credential exists *)
C12_Witness ==
    \E w \in Workers :
        /\ Done(w) /\ UnknownKey(w)
        /\ DOMAIN hist[w].pre.api_keys # {}
        /\ request[w].files # << >>
        /\ response[w].code = 401

TokensDistinct ==
    \A i \in DOMAIN api_keys, j \in DOMAIN api_keys :
        i # j => api_keys[i].key # api_keys[j].key

TokenKept ==
    \A id \in DOMAIN api_keys \cap DOMAIN api_keys' : api_keys'[id].key = api_keys[id].key

(* C14: in every reachable state no two credentials have the same token,   *)
(* and no step (key creation, admin update with any body, usage            *)
(* accounting at a submit's commit, deletion of another key) changes the   *)
(* token of a credential that exists before and after it.                  *)
C14_TokenUniqueAndImmutable == []TokensDistinct /\ [][TokenKept]_vars

(* two credentials, one updated by a body that names the token, one used   *)
(* by an accepted submit request                                           *)
C14_Witness ==
    /\ Cardinality(DOMAIN api_keys) = 2
    /\ \E id \in DOMAIN api_keys : api_keys[id].name = "shop" /\ api_keys[id].key = "k1"
    /\ \E id \in DOMAIN api_keys : api_keys[id].usage_count > 0

(* C15: every Submission row in the table, and every Submission staged by  *)
(* a request in progress, has a data mapping with at least one field, and  *)
(* its fields are exactly the fields of the request's form: sanitizing     *)
(* removed none, also not one whose value became empty.                    *)
C15_DataNeverEmpty ==
    /\ \A s \in form_submissions : DOMAIN s.data # {}
    /\ \A w \in Workers :
          session[w].submission.id # 0
              => /\ DOMAIN session[w].submission.data # {}
                 /\ DOMAIN session[w].submission.data = DOMAIN request[w].form
    /\ \A w \in Workers :
          Done(w) /\ response[w].code = 201
              => \A s \in form_submissions :
                    s.id = hist[w].submission_id => DOMAIN s.data = DOMAIN request[w].form

(* a committed Submission one of whose values was sanitized to the empty   *)
(* string                                                                  *)
C15_Witness ==
    \E w \in Workers :
        /\ Done(w) /\ response[w].code = 201
        /\ \E s \in form_submissions :
              /\ s.id = hist[w].submission_id
              /\ \E k \in DOMAIN s.data : s.data[k] = << >> /\ request[w].form[k] # << >>

Sanitized(w) == pc[w] = "sanitized"

NoNul(v) == \A i \in DOMAIN v : v[i] # "NUL"

NoLeadingSpace(v) == v = << >> \/ ~IsSpace(v[1])

NoTrailingSpace(v) == v = << >> \/ ~IsSpace(v[Len(v)])

(* The value with its NULs deleted. *)
WithoutNul(raw) == SelectSeq(raw, LAMBDA c : c # "NUL")

(* The number of whitespace characters s begins with, and the position of  *)
(* the last character of s that is not whitespace (0 if there is none).    *)
LeadingSpaces(s) ==
    CHOOSE i \in 0..Len(s) :
        (\A m \in 1..i : IsSpace(s[m])) /\ (i = Len(s) \/ ~IsSpace(s[i + 1]))

LastNonSpace(s) ==
    CHOOSE j \in 0..Len(s) :
        (\A m \in (j + 1)..Len(s) : IsSpace(s[m])) /\ (j = 0 \/ ~IsSpace(s[j]))

(* s without its leading and trailing whitespace *)
Trimmed(s) == SubSeq(s, LeadingSpaces(s) + 1, LastNonSpace(s))

(* the first MAX_VALUE_LEN characters of the trimmed, NUL-free value *)
Cleaned(raw) ==
    LET t == Trimmed(WithoutNul(raw))
    IN  IF Len(t) <= MAX_VALUE_LEN THEN t ELSE SubSeq(t, 1, MAX_VALUE_LEN)

(* C16, as claimed: the sanitized mapping has exactly the keys of the      *)
(* input, and each value has no NUL, no leading and no trailing            *)
(* whitespace, at most 10,000 characters, and is the input value with its  *)
(* NULs deleted, its whitespace trimmed and the result truncated.          *)
C16_SanitizedAsClaimed ==
    \A w \in Workers :
        Sanitized(w)
            => LET raw == request[w].form
                   out == session[w].form_data
               IN  /\ DOMAIN out = DOMAIN raw
                   /\ \A k \in DOMAIN out :
                         /\ NoNul(out[k])
                         /\ NoLeadingSpace(out[k])
                         /\ NoTrailingSpace(out[k])
                         /\ Len(out[k]) <= MAX_VALUE_LEN
                         /\ out[k] = Cleaned(raw[k])

(* C16, amended: as above, but a value has no trailing whitespace only     *)
(* when its trimmed, NUL-free input fits in 10,000 characters; a longer    *)
(* one is cut after trimming and may end in whitespace.                    *)
C16_SanitizedAmended ==
    \A w \in Workers :
        Sanitized(w)
            => LET raw == request[w].form
                   out == session[w].form_data
               IN  /\ DOMAIN out = DOMAIN raw
                   /\ \A k \in DOMAIN out :
                         /\ NoNul(out[k])
                         /\ NoLeadingSpace(out[k])
                         /\ Len(Trimmed(WithoutNul(raw[k]))) <= MAX_VALUE_LEN
                               => NoTrailingSpace(out[k])
                         /\ Len(out[k]) <= MAX_VALUE_LEN
                         /\ out[k] = Cleaned(raw[k])

(* a value cut at the limit right after a blank *)
C16_Witness ==
    \E w \in Workers :
        /\ Sanitized(w)
        /\ \E k \in DOMAIN session[w].form_data :
              /\ Len(session[w].form_data[k]) = MAX_VALUE_LEN
              /\ IsSpace(session[w].form_data[k][MAX_VALUE_LEN])

(* The label/value pairs a reader finds in each body. *)
HtmlFields(html) == {<<e.label, e.value>> : e \in html.fields}

TextFields(text) == {<<b[1], b[4]>> : b \in text.fields}

(* C17: the plain-text body and the HTML body that one dispatcher call     *)
(* rendered (the fallback transport renders both) hold the same labels     *)
(* and the same value under each label, and these are the fields of the    *)
(* submission.                                                             *)
C17_BodiesAgree ==
    \A w \in Workers :
        hist[w].dispatches > 0 /\ "smtp" \in hist[w].dispatch.routines
            => LET d == hist[w].dispatch
               IN  /\ HtmlFields(d.html) = TextFields(d.text)
                   /\ pc[w] = "commit"
                         => HtmlFields(d.html)
                              = {<<k, session[w].form_data[k]>> : k \in DOMAIN session[w].form_data}

(* both bodies of a message that was sent, one of whose values is empty *)
C17_Witness ==
    \E w \in Workers :
        /\ hist[w].dispatches > 0
        /\ \E m \in hist[w].dispatch.sent :
              /\ m.transport = "smtp"
              /\ Cardinality(HtmlFields(m.html)) = 2
              /\ \E p \in TextFields(m.text) : p[2] = << >>

(* The entries of a body's file list. *)
Listed(body) == {body.files[i] : i \in DOMAIN body.files}

(* What the list should show for the committed Attachments of a request. *)
ListingOf(rows) ==
    {[filename |-> f.original_filename, size |-> _format_file_size(f.file_size)] : f \in rows}

(* C18: for a submit request answered 201 that stored attachments, the     *)
(* HTML body (and the text body, when the fallback transport rendered      *)
(* one) lists every committed Attachment under its original filename and   *)
(* with its stored size, and lists nothing else.                           *)
C18_AttachmentsListed ==
    \A w \in Workers :
        Done(w) /\ response[w].code = 201 /\ hist[w].stored # {}
            => LET d == hist[w].dispatch
                   rows == AttachmentsOf(hist[w].submission_id)
               IN  /\ Listed(d.html) = ListingOf(rows)
                   /\ "smtp" \in d.routines => Listed(d.text) = ListingOf(rows)

(* The files the loop of a request visits and stores: the first part of    *)
(* each field, when it has a filename.                                     *)
Visited(files) ==
    {i \in DOMAIN FieldOrder(files) : Uploaded(FirstPart(files, FieldOrder(files)[i]))}

Repeat(x, n) == [i \in 1..n |-> x]

StoreFailedIn(w) == \E i \in DOMAIN hist[w].trace : hist[w].trace[i] = "store_failed"

(* C20: a submit request in which storing a file failed ended there: it    *)
(* was answered 500, the failure is the last step it took (no later file   *)
(* was stored and the dispatcher was not called), only the files stored    *)
(* before it and what the failed write left are new on disk, and the       *)
(* tables are what they were before the request.                           *)
C20_StorageFailureAborts ==
    \A w \in Workers :
        Done(w) /\ StoreFailedIn(w)
            => /\ response[w].code = 500
               /\ hist[w].trace[Len(hist[w].trace)] = "store_failed"
               /\ hist[w].dispatches = 0
               /\ Cardinality(DOMAIN disk \ DOMAIN hist[w].pre.disk)
                     <= Cardinality(hist[w].stored) + 1
               /\ TablesUnchanged(w)

(* the first of two files failed while the second, an allowed one, was    *)
(* still to be visited                                                     *)
C20_Witness ==
    \E w \in Workers :
        /\ Done(w) /\ StoreFailedIn(w)
        /\ hist[w].stored = {}
        /\ Cardinality(Visited(request[w].files)) = 2
        /\ AllAllowed(request[w].files)
        /\ response[w].code = 500

StoredNamesDistinct ==
    \A f \in file_uploads, g \in file_uploads :
        f.id # g.id /\ f.file_path.dir = g.file_path.dir
            => f.stored_filename # g.stored_filename

FilesKept == \A p \in DOMAIN disk : p \in DOMAIN disk' /\ disk'[p] = disk[p]

Complete(p, q) ==
    \E i \in DOMAIN q.files :
        /\ Uploaded(q.files[i])
        /\ secure_filename(q.files[i].filename) = p.name.name
        /\ disk[p] = q.files[i].content

(* C22: every file that a submit request has put on disk under a final     *)
(* storage name is completely written, also when the write failed part     *)
(* way.                                                                    *)
C22_NoPartialFileVisible ==
    \A w \in Workers :
        pc[w] # "idle"
            => \A p \in DOMAIN disk \ DOMAIN hist[w].pre.disk : Complete(p, request[w])

(* C23: every submit request that has started ends with a response,        *)
(* whatever the remote end of the chosen transport does, including never   *)
(* answering.                                                              *)
C23_EveryRequestAnswered ==
    \A w \in Workers : (pc[w] # "idle") ~> (pc[w] = "done" /\ response[w].code # 0)


(* ------------------- the fallback transport's session ------------------ *)
(* The deployment's environment is fixed when the process starts; the      *)
(* specification below runs the submit route under each environment.       *)
MailInit ==
    /\ api_keys = [id \in {} |-> NoKey]
    /\ form_submissions = {}
    /\ file_uploads = {}
    /\ seqs = [api_key |-> 1, submission |-> 1, file |-> 1]
    /\ disk = [p \in {} |-> 0]
    /\ dirs = {}
    /\ clock = 1
    /\ started = 0
    /\ accepted = [id \in KeyIds |-> 0]
    /\ resend_api_key \in {"", "re_key"}
    /\ environ \in SmtpEnvs
    /\ pc = [w \in Workers |-> "idle"]
    /\ request = [w \in Workers |-> NULL]
    /\ response = [w \in Workers |-> NoResponse]
    /\ session = [w \in Workers |-> NoSession]
    /\ hist = [w \in Workers |-> NoHist]

MailNext ==
    \/ \E q \in ConcInputs : started < MaxRequests /\ SubmitBegin(1, q)
    \/ \E rnd \in RandomHex : StoreFile(1, rnd, "ok")
    \/ \E net \in NetOutcomes : Notify(1, "ok", net, net)
    \/ Commit(1, TRUE)
    \/ Teardown(1)
    \/ Release(1)
    \/ \E key \in Tokens, name \in KeyNames, to \in Recipients :
          Quiet /\ CreateApiKey(key, name, to)

MailSpec == MailInit /\ [][MailNext]_vars

Commands(s, c) == {i \in DOMAIN s : s[i].cmd = c}

Before(s, c1, c2) == \A i \in Commands(s, c1), j \in Commands(s, c2) : i < j

CredentialsConfigured ==
    Config(environ).SMTP_USERNAME # "" /\ Config(environ).SMTP_PASSWORD # ""

(* C24: in every session of the fallback transport the upgrade to an       *)
(* encrypted channel precedes any login and the sending of the message,    *)
(* the connection goes to the configured host and port, and a login with   *)
(* the configured user name and password is performed exactly when the     *)
(* deployment's configuration supplies both.                               *)
C24_FallbackSessionAsConfigured ==
    \A w \in Workers :
        hist[w].smtp # << >>
            => LET s == hist[w].smtp
                   cfg == Config(environ)
               IN  /\ Commands(s, "starttls") # {}
                   /\ Before(s, "starttls", "login")
                   /\ Before(s, "starttls", "send_message")
                   /\ s[1].cmd = "connect"
                   /\ s[1].host = cfg.SMTP_HOST
                   /\ s[1].port = cfg.SMTP_PORT
                   /\ (Commands(s, "login") # {}) <=> CredentialsConfigured
                   /\ \A i \in Commands(s, "login") :
                          /\ s[i].user = cfg.SMTP_USERNAME
                          /\ s[i].password = cfg.SMTP_PASSWORD


(* A step that deletes committed submissions or a credential. *)
DeleteStep ==
    \/ form_submissions' # form_submissions /\ form_submissions' \subseteq form_submissions
    \/ DOMAIN api_keys' # DOMAIN api_keys /\ DOMAIN api_keys' \subseteq DOMAIN api_keys

DeletedSubmissions == {s.id : s \in form_submissions \ form_submissions'}

(* C25: a step that deletes a submission, directly or with its credential, *)
(* removes the Attachment rows of every submission it deletes and leaves   *)
(* the files and directories on disk exactly as they were.                 *)
C25_DeleteKeepsFiles ==
    [][DeleteStep =>
          /\ disk' = disk
          /\ dirs' = dirs
          /\ \A f \in file_uploads' : f.submission_id \notin DeletedSubmissions
          /\ file_uploads' \subseteq file_uploads]_vars

(* a request stored a file and was answered 201; its submission and the    *)
(* file's row have since been deleted, its credential exists, and the file *)
(* is still on disk                                                        *)
C25_Witness ==
    \E w \in Workers :
        /\ Done(w) /\ response[w].code = 201
        /\ hist[w].stored # {}
        /\ hist[w].stored \subseteq DOMAIN disk
        /\ hist[w].key_id \in DOMAIN api_keys
        /\ \A s \in form_submissions : s.id # hist[w].submission_id
        /\ \A f \in file_uploads : f.submission_id # hist[w].submission_id


(* C26: when a request whose notification was delivered has ended, it was  *)
(* answered 201 and its Submission is committed: no delivered notification *)
(* belongs to a submission that was rolled back.                           *)
C26_NotifiedImpliesCommitted ==
    \A w \in Workers :
        Done(w) /\ hist[w].dispatch.sent # {}
            => /\ response[w].code = 201
               /\ \E s \in form_submissions : s.id = hist[w].submission_id


(* ---------------- deactivating and reactivating a credential ----------- *)
(* Two submit requests one after the other, the second starting when the   *)
(* first has been answered, with credentials created and switched on and   *)
(* off by the admin before, between and after them.                        *)
NoRequestRunning == \A w \in Workers : pc[w] \in {"idle", "done"}

ToggleNext ==
    \/ \E q \in ConcInputs : Quiet /\ SubmitBegin(1, q)
    \/ \E q \in ConcInputs : pc[1] = "done" /\ SubmitBegin(2, q)
    \/ \E w \in Workers, rnd \in RandomHex : StoreFile(w, rnd, "ok")
    \/ \E w \in Workers : Notify(w, "ok", "ok", "ok")
    \/ \E w \in Workers : Commit(w, TRUE)
    \/ \E w \in Workers : Teardown(w)
    \/ \E key \in Tokens, name \in KeyNames, to \in Recipients :
          Quiet /\ CreateApiKey(key, name, to)
    \/ \E key_id \in KeyIds, is_active \in BOOLEAN :
          NoRequestRunning /\ UpdateApiKey(key_id, is_active)

ToggleSpec == Init /\ [][ToggleNext]_vars

(* The credential's state when the request started decides the answer. *)
AnsweredByState ==
    \A w \in Workers :
        Done(w) => /\ KeyInactiveIn(hist[w].pre.api_keys, request[w].api_key)
                      => response[w].code = 401
                   /\ KeyActiveIn(hist[w].pre.api_keys, request[w].api_key)
                      => response[w].code # 401

(* A step of a request that is answered 401. *)
RejectStep(w) == pc'[w] # pc[w] /\ response'[w].code = 401

NoChange ==
    /\ api_keys' = api_keys
    /\ form_submissions' = form_submissions
    /\ file_uploads' = file_uploads
    /\ seqs' = seqs
    /\ disk' = disk
    /\ dirs' = dirs

(* C27: a submit request that starts while its credential is inactive      *)
(* (an update that deactivated it has committed and none has reactivated   *)
(* it since) is answered 401 and none of its steps changes a table, a      *)
(* sequence or the disk; a request that starts after the credential was    *)
(* set active again is not rejected.                                       *)
C27_InactiveUntilReactivated ==
    []AnsweredByState /\ [][\A w \in Workers : RejectStep(w) => NoChange]_vars

(* the first request met the credential inactive and was answered 401; the *)
(* second, with the same key after its reactivation, was accepted and its  *)
(* Submission is committed                                                 *)
C27_Witness ==
    /\ Done(1) /\ Done(2)
    /\ request[1].api_key = request[2].api_key
    /\ KeyInactiveIn(hist[1].pre.api_keys, request[1].api_key)
    /\ response[1].code = 401
    /\ KeyActiveIn(hist[2].pre.api_keys, request[2].api_key)
    /\ response[2].code = 201
    /\ \E s \in form_submissions : s.id = hist[2].submission_id


(* ------------------- client filenames that name a path ----------------- *)
NameParent == <<".", ".", "/", ".", ".", "/", "a", ".", "pdf">>

NameAbsolute == <<"/", "etc", "/", "a", ".", "pdf">>

NameBackslash == <<".", ".", "\\", "a", ".", "pdf">>

PathNames == {NameOk, NameParent, NameAbsolute, NameBackslash}

PathInputs ==
    [api_key : Tokens, form : {FormA},
     files : {<<[field |-> "f1", filename |-> n, content |-> 2]>> : n \in PathNames}]

PathNext ==
    \/ \E q \in PathInputs : started < MaxRequests /\ SubmitBegin(1, q)
    \/ \E rnd \in RandomHex, outcome \in SaveOutcomes : StoreFile(1, rnd, outcome)
    \/ Notify(1, "ok", "ok", "ok")
    \/ Commit(1, TRUE)
    \/ Teardown(1)
    \/ Release(1)
    \/ \E key \in Tokens, name \in KeyNames, to \in Recipients :
          Quiet /\ CreateApiKey(key, name, to)
    \/ Quiet /\ Tick

PathSpec == Init /\ [][PathNext]_vars

PathSeparators == {"/", "\\"}

(* The path names a file directly in upload_root/<api_key_id>/<YYYY-MM>:   *)
(* its directory is that one and its file name holds no separator. The     *)
(* timestamp and the token in front of the name are digits.                *)
DirectlyIn(file_path, api_key_id) ==
    /\ file_path.dir = <<api_key_id, YearMonth(file_path.name.timestamp)>>
    /\ \A i \in DOMAIN file_path.name.name : file_path.name.name[i] \notin PathSeparators

(* C28: every file on disk lies directly in the directory of one tenant    *)
(* and month; every file a request wrote, whole or in part, lies in the    *)
(* directory of the credential the request authenticated with; and every   *)
(* Attachment row belongs to a Submission of the credential in whose       *)
(* directory its file lies, whatever the client-supplied filename.         *)
C28_FilesInTenantDirectory ==
    /\ \A p \in DOMAIN disk : \E id \in KeyIds : DirectlyIn(p, id) /\ p.dir \in dirs
    /\ \A w \in Workers :
          pc[w] # "idle"
              => /\ \/ hist[w].key_id = 0
                    \/ request[w].api_key = hist[w].pre.api_keys[hist[w].key_id].key
                 /\ \A p \in DOMAIN disk \ DOMAIN hist[w].pre.disk :
                        DirectlyIn(p, hist[w].key_id)
    /\ \A f \in file_uploads :
          \E sub \in form_submissions :
              /\ sub.id = f.submission_id
              /\ DirectlyIn(f.file_path, sub.api_key_id)
              /\ f.file_path \in DOMAIN disk

(* a committed Attachment whose client filename named a parent directory   *)
C28_Witness ==
    \E f \in file_uploads :
        /\ f.original_filename = NameParent
        /\ f.file_path \in DOMAIN disk
        /\ \E sub \in form_submissions : sub.id = f.submission_id /\ sub.api_key_id = 2


(* C29: sanitize_form_data is idempotent: sanitizing the mapping it        *)
(* returned gives that mapping back, also for a value longer than the      *)
(* limit whose character at the cut position is whitespace.                *)
C29_SanitizeIdempotent ==
    \A w \in Workers :
        Sanitized(w) => sanitize_form_data(session[w].form_data) = session[w].form_data


(* -------------------------- admin endpoints ---------------------------- *)
(* The Authorization header of an admin request: absent, not a token, an   *)
(* expired token, a token that verifies.                                   *)
BearerTokens == {"none", "garbage", "expired", "valid"}

(* flask_jwt_extended.verify_jwt_in_request() returns for a token that     *)
(* verifies and raises for every other header.                             *)
verify_jwt_in_request(token) == token = "valid"

success_response(data, message, status_code) ==
    [code |-> status_code, message |-> message, data |-> data]

error_response(message, status_code) == [code |-> status_code, message |-> message]

DataVars ==
    <<api_keys, form_submissions, file_uploads, seqs, disk, dirs, clock, started,
      accepted, resend_api_key, environ>>

(* The handler returns resp. *)
AdminAnswer(w, resp) ==
    /\ response' = [response EXCEPT ![w] = resp]
    /\ pc' = [pc EXCEPT ![w] = "teardown"]

jwt_required_customOpen(w, endpoint, token, fn) ==
    /\ pc[w] = "idle"
    /\ request' = [request EXCEPT ![w] = [endpoint |-> endpoint, token |-> token]]
    /\ hist' = [hist EXCEPT ![w] = [NoHist EXCEPT !.pre = Snapshot]]
    /\ session' = session
    /\ fn

(* jwt_required_custom: the wrapped handler fn runs when the token         *)
(* verifies; any exception of the verification is answered 401.            *)
jwt_required_custom(w, endpoint, token, fn) ==
    /\ pc[w] = "idle"
    /\ request' = [request EXCEPT ![w] = [endpoint |-> endpoint, token |-> token]]
    /\ hist' = [hist EXCEPT ![w] = [NoHist EXCEPT !.pre = Snapshot]]
    /\ session' = session
    /\ IF verify_jwt_in_request(token)
       THEN fn
       ELSE /\ AdminAnswer(w, error_response("Authentication required", 401))
            /\ UNCHANGED DataVars

(* The rows are returned as a set: the order of the list is left out. *)
get_api_keys == success_response({api_keys[id] : id \in DOMAIN api_keys}, NULL, 200)

create_api_key(w, key, name, recipient_email) ==
    /\ CreateApiKeyTx(key, name, recipient_email)
    /\ AdminAnswer(w,
           IF \E id \in DOMAIN api_keys : api_keys[id].key = key
           THEN error_response("Failed to create API key", 500)
           ELSE success_response(NewApiKey(seqs.api_key, key, name, recipient_email, clock),
                                 "API key created successfully", 201))

update_api_key(w, key_id, is_active) ==
    IF key_id \notin DOMAIN api_keys
    THEN AdminAnswer(w, error_response("API key not found", 404)) /\ UNCHANGED DataVars
    ELSE IF api_keys[key_id].is_active = is_active
    THEN /\ AdminAnswer(w, success_response(api_keys[key_id],
                                            "API key updated successfully", 200))
         /\ UNCHANGED DataVars
    ELSE /\ UpdateApiKeyTx(key_id, is_active)
         /\ AdminAnswer(w, success_response([api_keys[key_id] EXCEPT !.is_active = is_active],
                                            "API key updated successfully", 200))

delete_api_key(w, key_id) ==
    IF key_id \notin DOMAIN api_keys
    THEN AdminAnswer(w, error_response("API key not found", 404)) /\ UNCHANGED DataVars
    ELSE /\ DeleteApiKeyTx(key_id)
         /\ AdminAnswer(w, success_response(NULL, "API key deleted successfully", 200))

(* page 1 of the unfiltered list *)
get_submissions ==
    success_response([submissions |-> form_submissions,
                      total |-> Cardinality(form_submissions), page |-> 1],
                     NULL, 200)

get_submission(submission_id) ==
    IF \E s \in form_submissions : s.id = submission_id
    THEN success_response(CHOOSE s \in form_submissions : s.id = submission_id, NULL, 200)
    ELSE error_response("Submission not found", 404)

delete_submission(w, submission_id) ==
    IF \A s \in form_submissions : s.id # submission_id
    THEN AdminAnswer(w, error_response("Submission not found", 404)) /\ UNCHANGED DataVars
    ELSE /\ DeleteSubmissionTx(submission_id)
         /\ AdminAnswer(w, success_response(NULL, "Submission deleted successfully", 200))

(* send_file answers with the file's content; a missing file raises and    *)
(* is answered 500.                                                        *)
download_file(file_id) ==
    IF \A f \in file_uploads : f.id # file_id
    THEN error_response("File not found", 404)
    ELSE LET file_upload == CHOOSE f \in file_uploads : f.id = file_id
         IN  IF file_upload.file_path \in DOMAIN disk
             THEN success_response([download_name |-> file_upload.original_filename,
                                    content |-> disk[file_upload.file_path]], NULL, 200)
             ELSE error_response("Failed to download file", 500)

(* The count of the last seven days' submissions is left out. *)
get_stats ==
    success_response(
        [total_api_keys |-> Cardinality(DOMAIN api_keys),
         active_api_keys |-> Cardinality({id \in DOMAIN api_keys : api_keys[id].is_active}),
         total_submissions |-> Cardinality(form_submissions),
         total_files |-> Cardinality(file_uploads)],
        NULL, 200)

(* A handler that only reads. *)
ReadOnly(w, resp) == AdminAnswer(w, resp) /\ UNCHANGED DataVars

(* Submit requests are served by the first worker and admin requests by    *)
(* the second, one request at a time.                                      *)
AdminWorker == 2

AuthNext ==
    \/ \E q \in ConcInputs : Quiet /\ started < MaxRequests /\ SubmitBegin(1, q)
    \/ \E rnd \in RandomHex : StoreFile(1, rnd, "ok")
    \/ Notify(1, "ok", "ok", "ok")
    \/ Commit(1, TRUE)
    \/ \E w \in Workers : Teardown(w)
    \/ \E w \in Workers : Release(w)
    \/ \E token \in BearerTokens :
          Quiet /\ jwt_required_custom(AdminWorker, "get_api_keys", token,
                                       ReadOnly(AdminWorker, get_api_keys))
    \/ \E token \in BearerTokens, key \in Tokens, name \in KeyNames, to \in Recipients :
          Quiet /\ jwt_required_custom(AdminWorker, "create_api_key", token,
                                       create_api_key(AdminWorker, key, name, to))
    \/ \E token \in BearerTokens, key_id \in KeyIds, is_active \in BOOLEAN :
          Quiet /\ jwt_required_custom(AdminWorker, "update_api_key", token,
                                       update_api_key(AdminWorker, key_id, is_active))
    \/ \E token \in BearerTokens, key_id \in KeyIds :
          Quiet /\ jwt_required_custom(AdminWorker, "delete_api_key", token,
                                       delete_api_key(AdminWorker, key_id))
    \/ \E token \in BearerTokens :
          Quiet /\ jwt_required_custom(AdminWorker, "get_submissions", token,
                                       ReadOnly(AdminWorker, get_submissions))
    \/ \E token \in BearerTokens, id \in 1..MaxRequests :
          Quiet /\ jwt_required_custom(AdminWorker, "get_submission", token,
                                       ReadOnly(AdminWorker, get_submission(id)))
    \/ \E token \in BearerTokens, id \in 1..MaxRequests :
          Quiet /\ jwt_required_custom(AdminWorker, "delete_submission", token,
                                       delete_submission(AdminWorker, id))
    \/ \E token \in BearerTokens, id \in 1..MaxFiles :
          Quiet /\ jwt_required_custom(AdminWorker, "download_file", token,
                                       ReadOnly(AdminWorker, download_file(id)))
    \/ \E token \in BearerTokens :
          Quiet /\ jwt_required_custom(AdminWorker, "get_stats", token,
                                       ReadOnly(AdminWorker, get_stats))

AuthSpec == Init /\ [][AuthNext]_vars

AdminEndpoints ==
    {"get_api_keys", "create_api_key", "update_api_key", "delete_api_key",
     "get_submissions", "get_submission", "delete_submission", "download_file",
     "get_stats"}

(* The worker has answered an admin request. *)
AdminAnswered(w) ==
    pc[w] \in {"teardown", "done"} /\ "endpoint" \in DOMAIN request[w]

(* C30: an admin request to any of the nine endpoints whose bearer token   *)
(* does not verify is answered 401 with a body that carries no data, and   *)
(* the tables and the disk are as they were when it arrived.               *)
C30_AdminRequiresToken ==
    \A w \in Workers :
        AdminAnswered(w) /\ ~verify_jwt_in_request(request[w].token)
            => /\ request[w].endpoint \in AdminEndpoints
               /\ response[w].code = 401
               /\ "data" \notin DOMAIN response[w]
               /\ TablesUnchanged(w)
               /\ StorageUnchanged(w)

(* a delete of an existing credential that has a submission with a file,   *)
(* sent with an expired token and answered 401                             *)
C30_Witness ==
    \E w \in Workers :
        /\ Done(w) /\ "endpoint" \in DOMAIN request[w]
        /\ request[w].endpoint = "delete_api_key"
        /\ request[w].token = "expired"
        /\ response[w].code = 401
        /\ \E f \in file_uploads, sub \in form_submissions :
              f.submission_id = sub.id /\ sub.api_key_id \in DOMAIN api_keys

====
